---- MODULE Spec2Model ----
(***************************************************************************)
(* Model of the housing_dpe pipeline (src/src/housing_dpe):                *)
(*   load_params -> generate_synthetic_panel -> validate_df -> estimate    *)
(*   -> save_outputs.                                                      *)
(*                                                                         *)
(* Reals are fixed-point integers in hundredths (1.0 is 100).  A float     *)
(* cell of a dataset is a record [k, v]: k = "fin" with the value v, or    *)
(* k = "inf" / "nan".  Integer cells are plain integers.                   *)
(* A dataset is [columns, dtypes, rows]: the column names in order, their  *)
(* dtypes in the same order, and the rows as functions column -> cell.     *)
(***************************************************************************)
EXTENDS Integers, Sequences, FiniteSets, TLC

VARIABLES
    pc,        \* stage of run() that is next to execute / executing
    status,    \* "running", or "failed" once an exception has left run()
    params,    \* Params record returned by load_params
    df,        \* the dataset held by run()
    res,       \* the regression result held by run()
    files,     \* artifact paths that exist under outdir
    written,   \* what the writer put into the artifacts
    trace,     \* stages entered so far, in order
    warnings,  \* warnings / log records emitted by the program
    rng,       \* state of the most recently constructed generator
    bitgen,    \* the bit generator's output stream for each seed
    memo,      \* every (n_rows, seed, dataset) a generator call has returned
    inp,       \* argument of the function applied last
    out        \* its result

vars == <<pc, status, params, df, res, files, written, trace, warnings,
          rng, bitgen, memo, inp, out>>

(***************************************************************************)
(* Bounds                                                                  *)
(***************************************************************************)
MaxRows == 2        \* largest n_rows of a pipeline run
MaxValRows == 2     \* largest dataset handed to validate_df directly
DetPeriod == 3      \* period of the sampled bit streams in SpecDet
MaxCalls == 3       \* calls of generate_synthetic_panel in SpecDet

Bits == {0, 1}      \* raw outputs of the bit generator that are sampled

(***************************************************************************)
(* Helpers                                                                 *)
(***************************************************************************)
Max(a, b) == IF a >= b THEN a ELSE b

RECURSIVE ISqrtFrom(_, _)
ISqrtFrom(n, r) == IF (r + 1) * (r + 1) > n THEN r ELSE ISqrtFrom(n, r + 1)

\* int(np.sqrt(n)) for n >= 0
ISqrt(n) == ISqrtFrom(n, 0)

RECURSIVE SumSeq(_)
SumSeq(s) == IF s = <<>> THEN 0 ELSE Head(s) + SumSeq(Tail(s))

RECURSIVE MaxSeq(_)
MaxSeq(s) == IF Len(s) = 1 THEN s[1] ELSE Max(s[1], MaxSeq(Tail(s)))

Range(s) == {s[i] : i \in DOMAIN s}

Fin(v) == [k |-> "fin", v |-> v]
Inf == [k |-> "inf", v |-> 0]
NaN == [k |-> "nan", v |-> 0]

Columns == <<"firm_id", "year", "x", "treat", "y">>
Dtypes == <<"int64", "int64", "float64", "int64", "float64">>

NoDf == [columns |-> <<>>, dtypes |-> <<>>, rows |-> <<>>]

(***************************************************************************)
(* numpy Generator: default_rng(seed) starts a fresh stream for the seed;  *)
(* each draw reads the stream at the generator's position.  The stream of  *)
(* a seed is fixed (bitgen) but otherwise arbitrary.                       *)
(***************************************************************************)
default_rng_shared(seed) == rng

default_rng(seed) == [seed |-> seed, pos |-> 0]

\* the i-th raw output (i >= 0) after generator state g
RawAt(bg, g, i) == bg[g.seed][((g.pos + i) % Len(bg[g.seed])) + 1]

\* rng.integers(low, high): a value of low..high-1
rng_integers(low, high, raw) == IF raw = 0 THEN low ELSE high - 1

\* rng.normal(0, 1): sampled at -1.0 and +1.0
rng_normal(raw) == IF raw = 0 THEN -100 ELSE 100

\* rng.uniform(0, 1): half-open [0, 1), sampled at 0.0 and 0.99
rng_uniform(raw) == IF raw = 0 THEN 0 ELSE 99

\* 1 / (1 + exp(-z)), to first order around 0 and kept inside (0, 1)
Logistic(z) ==
    LET lin == 50 + (z \div 4)
    IN  IF lin < 1 THEN 1 ELSE IF lin > 99 THEN 99 ELSE lin

true_tau == 50

n_firms_nosqrt(n_rows) == Max(50, n_rows)

n_firms(n_rows) == Max(50, ISqrt(n_rows))

years == [i \in 1..11 |-> 2009 + i]

(***************************************************************************)
(* The raw frame of generate_synthetic_panel: n_rows rows, columns drawn   *)
(* in the order firm_id, year, x, uniform (for treat), eps.                *)
(***************************************************************************)
RawFrame(n_rows, bg, g) ==
    LET firm_id == [i \in 1..n_rows |->
                      rng_integers(0, n_firms(n_rows), RawAt(bg, g, i - 1))]
        year    == [i \in 1..n_rows |->
                      years[rng_integers(0, Len(years),
                                         RawAt(bg, g, n_rows + i - 1)) + 1]]
        x       == [i \in 1..n_rows |-> rng_normal(RawAt(bg, g, 2 * n_rows + i - 1))]
        p       == [i \in 1..n_rows |->
                      Logistic((30 * x[i]) \div 100 + ((firm_id[i] % 7) - 3) * 20)]
        treat   == [i \in 1..n_rows |->
                      IF rng_uniform(RawAt(bg, g, 3 * n_rows + i - 1)) < p[i]
                      THEN 1 ELSE 0]
        firm_fe == [i \in 1..n_rows |-> ((firm_id[i] % 10) - 5) * 5]
        ymean   == (SumSeq(year) * 100) \div n_rows
        year_fe == [i \in 1..n_rows |-> ((year[i] * 100 - ymean) * 2) \div 100]
        eps     == [i \in 1..n_rows |-> rng_normal(RawAt(bg, g, 4 * n_rows + i - 1))]
        y       == [i \in 1..n_rows |->
                      true_tau * treat[i] + (80 * x[i]) \div 100
                      + firm_fe[i] + year_fe[i] + eps[i]]
    IN  [i \in 1..n_rows |->
           [firm_id |-> firm_id[i], year |-> year[i], x |-> x[i],
            treat |-> treat[i], y |-> y[i]]]

KeyOf(r) == <<r.firm_id, r.year>>

KeyLess(a, b) == a[1] < b[1] \/ (a[1] = b[1] /\ a[2] < b[2])

RECURSIVE SortKeys(_)
SortKeys(K) ==
    IF K = {} THEN <<>>
    ELSE LET m == CHOOSE a \in K : \A b \in K \ {a} : KeyLess(a, b)
         IN  <<m>> \o SortKeys(K \ {m})

\* the values of column c in the rows of group key, in row order
GroupValues(rows, key, c) ==
    LET idx == SelectSeq([i \in 1..Len(rows) |-> i],
                         LAMBDA i : KeyOf(rows[i]) = key)
    IN  [j \in 1..Len(idx) |-> rows[idx[j]][c]]

\* "x": "mean", "y": "mean"
AggMean(vals) == SumSeq(vals) \div Len(vals)

AggTreatSum(vals) == SumSeq(vals)

\* "treat": "max"
AggTreat(vals) == MaxSeq(vals)

NoGroupBy(rows) ==
    [i \in 1..Len(rows) |->
       [firm_id |-> rows[i].firm_id, year |-> rows[i].year,
        x |-> Fin(rows[i].x), treat |-> rows[i].treat, y |-> Fin(rows[i].y)]]

\* df.groupby(["firm_id","year"], as_index=False).agg(...).sort_values(...)
GroupByFirmYear(rows) ==
    LET keys == SortKeys({KeyOf(rows[i]) : i \in 1..Len(rows)})
    IN  [j \in 1..Len(keys) |->
           [firm_id |-> keys[j][1],
            year    |-> keys[j][2],
            x       |-> Fin(AggMean(GroupValues(rows, keys[j], "x"))),
            treat   |-> AggTreat(GroupValues(rows, keys[j], "treat")),
            y       |-> Fin(AggMean(GroupValues(rows, keys[j], "y")))]]


\* the dataset returned for n_rows >= 0 by a generator in state g
generate_synthetic_panel(n_rows, bg, g) ==
    [columns |-> Columns, dtypes |-> Dtypes,
     rows |-> GroupByFirmYear(RawFrame(n_rows, bg, g))]

(***************************************************************************)
(* validate.py: the pandera schema and validate_df.                        *)
(* An error is [check, column]; column "" is the whole dataframe.          *)
(***************************************************************************)
Err(check, column) == [check |-> check, column |-> column]

ColIndex(cols, c) == CHOOSE i \in 1..Len(cols) : cols[i] = c

SchemaDtype(c) == Dtypes[ColIndex(Columns, c)]

IsFinite(cell) == cell.k = "fin"

\* coerce=True: the cast of one cell from dtype `from` to the schema dtype `to`
CastCell(cell, from, to) ==
    IF from = to THEN cell
    ELSE IF to = "float64" THEN Fin(cell * 100)
    ELSE cell.v \div 100

\* a float column can be cast to int64 only when every cell is finite
CanCast(d, c) ==
    LET from == d.dtypes[ColIndex(d.columns, c)]
    IN  \/ from = SchemaDtype(c)
        \/ SchemaDtype(c) = "float64"
        \/ \A i \in 1..Len(d.rows) : IsFinite(d.rows[i][c])

Coerce(d) ==
    LET castable(c) == c \in Range(Columns) /\ CanCast(d, c)
    IN  [columns |-> d.columns,
         dtypes  |-> [j \in 1..Len(d.columns) |->
                        IF castable(d.columns[j]) THEN SchemaDtype(d.columns[j])
                        ELSE d.dtypes[j]],
         rows    |-> [i \in 1..Len(d.rows) |->
                        [c \in Range(d.columns) |->
                           IF castable(c)
                           THEN CastCell(d.rows[i][c],
                                         d.dtypes[ColIndex(d.columns, c)],
                                         SchemaDtype(c))
                           ELSE d.rows[i][c]]]]

\* Column(int, Check.ge(0)), Column(int, Check.between(2000, 2035)),
\* Column(float, finite), Column(int, Check.isin([0, 1])), Column(float, finite)
CellCheck(c, cell) ==
    CASE c = "firm_id" -> cell >= 0
      [] c = "year"    -> cell >= 2000 /\ cell <= 2035
      [] c = "treat"   -> cell \in {0, 1}
      [] OTHER         -> IsFinite(cell)

CheckName(c) ==
    CASE c = "firm_id" -> "ge"
      [] c = "year"    -> "between"
      [] c = "treat"   -> "isin"
      [] OTHER         -> "finite"

\* the errors of one schema column of the coerced frame cd, in check order
ColumnErrors(d, cd, c) ==
    IF c \notin Range(d.columns) THEN <<Err("column_not_in_dataframe", c)>>
    ELSE
      (IF CanCast(d, c) THEN <<>> ELSE <<Err("coerce_dtype", c)>>)
      \o (IF cd.dtypes[ColIndex(cd.columns, c)] = "float64"
             /\ \E i \in 1..Len(cd.rows) : cd.rows[i][c].k = "nan"
          THEN <<Err("not_nullable", c)>> ELSE <<>>)
      \o (IF cd.dtypes[ColIndex(cd.columns, c)] = SchemaDtype(c)
             /\ \E i \in 1..Len(cd.rows) : ~CellCheck(c, cd.rows[i][c])
          THEN <<Err(CheckName(c), c)>> ELSE <<>>)

\* (~df[["firm_id", "year"]].duplicated()).all()
NoDuplicates(d) ==
    \A i, j \in 1..Len(d.rows) : i # j => KeyOf(d.rows[i]) # KeyOf(d.rows[j])

\* strict=True, then the columns, then the dataframe-level checks
SchemaErrors(d) ==
    LET cd == Coerce(d)
        extra == SelectSeq(d.columns, LAMBDA c : c \notin Range(Columns))
        keyed == {"firm_id", "year"} \subseteq Range(d.columns)
    IN  [j \in 1..Len(extra) |-> Err("column_not_in_schema", extra[j])]
        \o ColumnErrors(d, cd, "firm_id")
        \o ColumnErrors(d, cd, "year")
        \o ColumnErrors(d, cd, "x")
        \o ColumnErrors(d, cd, "treat")
        \o ColumnErrors(d, cd, "y")
        \o (IF keyed /\ ~NoDuplicates(cd) THEN <<Err("duplicate", "")>> ELSE <<>>)
        \o (IF Len(cd.rows) > 0 THEN <<>> ELSE <<Err("empty", "")>>)

\* schema().validate(df, lazy): with lazy every error is collected before
\* raising, without it the first error raises
SchemaValidate(d, lazy) ==
    LET errs == SchemaErrors(d)
    IN  IF errs = <<>>
        THEN [ok |-> TRUE, df |-> Coerce(d), errors |-> {}]
        ELSE [ok |-> FALSE, df |-> NoDf,
              errors |-> IF lazy THEN Range(errs) ELSE {Head(errs)}]

validate_df_eager(d) == SchemaValidate(d, FALSE)

validate_df(d) == SchemaValidate(d, TRUE)

(***************************************************************************)
(* pipeline.py: Params, estimate, save_outputs, run.                       *)
(* A formula "y ~ a + b" is the sequence <<"a", "b">> of its regressors.   *)
(***************************************************************************)
NoParams == [seed |-> 0, n_rows |-> 0, formula |-> <<>>, cov_type |-> ""]

NoRes == [param_names |-> <<>>, cov_type |-> ""]

NothingWritten == [data_rows |-> -1, n_obs |-> -1, plot_idx |-> -1,
                   fallback |-> FALSE]

\* covariance keywords get_robustcov_results accepts without further arguments
RobustCovTypes == {"nonrobust", "HC0", "HC1", "HC2", "HC3"}

\* the columns the formula machinery looks up in the data
FormulaColumns(formula) == Range(formula) \cup {"y"}

estimate_groups_always(d, formula, cov_type, lib) ==
    IF ~(FormulaColumns(formula) \subseteq Range(d.columns)) \/ lib = "fit_error"
       \/ "firm_id" \notin Range(d.columns)
    THEN [ok |-> FALSE, res |-> NoRes]
    ELSE IF cov_type # "cluster" /\ (cov_type \notin RobustCovTypes \/ lib = "cov_error")
    THEN [ok |-> FALSE, res |-> NoRes]
    ELSE IF cov_type = "cluster" /\ lib = "cov_error"
    THEN [ok |-> FALSE, res |-> NoRes]
    ELSE [ok |-> TRUE,
          res |-> [param_names |-> <<"Intercept">> \o formula, cov_type |-> cov_type]]

\* lib is what the fitting library does on inputs it accepts: "ok",
\* "fit_error" (smf.ols(...).fit() raises) or "cov_error"
\* (get_robustcov_results raises)
estimate(d, formula, cov_type, lib) ==
    IF ~(FormulaColumns(formula) \subseteq Range(d.columns)) \/ lib = "fit_error"
    THEN [ok |-> FALSE, res |-> NoRes]
    ELSE IF cov_type = "cluster"
    THEN IF "firm_id" \notin Range(d.columns) \/ lib = "cov_error"
         THEN [ok |-> FALSE, res |-> NoRes]
         ELSE [ok |-> TRUE,
               res |-> [param_names |-> <<"Intercept">> \o formula,
                        cov_type |-> "cluster"]]
    ELSE IF cov_type \notin RobustCovTypes \/ lib = "cov_error"
    THEN [ok |-> FALSE, res |-> NoRes]
    ELSE [ok |-> TRUE,
          res |-> [param_names |-> <<"Intercept">> \o formula,
                   cov_type |-> cov_type]]

\* 0-based position of `name`, or 1 when the name is not found
get_param_idx(param_names, name) ==
    IF param_names # <<>> /\ name \in Range(param_names)
    THEN ColIndex(param_names, name) - 1
    ELSE 1

\* whether _get_param_idx took the positional fallback
UsedFallback(param_names, name) ==
    ~(param_names # <<>> /\ name \in Range(param_names))

ProgramMetaFirst ==
    <<"load", "generate", "validate", "estimate", "mkdir", "write_meta",
      "write_data", "write_table_csv", "write_table_tex", "write_figure",
      "done">>

\* the statements of run() and of save_outputs(), in program order
Program ==
    <<"load", "generate", "validate", "estimate", "mkdir", "write_data",
      "write_table_csv", "write_table_tex", "write_figure", "write_meta",
      "done">>

After(p) == Program[ColIndex(Program, p) + 1]

\* an exception propagates out of run()
Raise == /\ status' = "failed"
         /\ pc' = pc

Seeds == {0}
RowCounts == (-1)..MaxRows
Formulas == {<<"treat", "x">>, <<"x", "treat">>, <<"x">>, <<>>}
CovTypes == {"nonrobust", "cluster"}
Configs == [seed : Seeds, n_rows : RowCounts, formula : Formulas,
            cov_type : CovTypes]

Init ==
    /\ pc = Program[1]
    /\ status = "running"
    /\ params = NoParams
    /\ df = NoDf
    /\ res = NoRes
    /\ files = {}
    /\ written = NothingWritten
    /\ trace = <<>>
    /\ warnings = <<>>
    /\ rng = [seed |-> 0, pos |-> 0]
    /\ bitgen = <<>>
    /\ memo = {}
    /\ inp = NoDf
    /\ out = [ok |-> FALSE, df |-> NoDf, errors |-> {}]

\* params = load_params(config_path)
Load ==
    /\ pc = "load" /\ status = "running"
    /\ trace' = Append(trace, "load")
    /\ \/ \E p \in Configs : params' = p /\ pc' = After(pc) /\ status' = status
       \/ Raise /\ params' = params
    /\ UNCHANGED <<df, res, files, written, warnings, rng, bitgen, memo, inp, out>>

\* df = generate_synthetic_panel(params.n_rows, params.seed)
Generate ==
    /\ pc = "generate" /\ status = "running"
    /\ trace' = Append(trace, "generate")
    /\ IF params.n_rows < 0
       THEN Raise /\ UNCHANGED <<df, rng>>
       ELSE \E s \in [1..(5 * params.n_rows) -> Bits] :
              LET g == default_rng(params.seed)
                  bg == (params.seed :> s)
              IN  /\ df' = generate_synthetic_panel(params.n_rows, bg, g)
                  /\ rng' = [g EXCEPT !.pos = g.pos + 5 * params.n_rows]
                  /\ pc' = After(pc) /\ status' = status
    /\ UNCHANGED <<params, res, files, written, warnings, bitgen, memo, inp, out>>

ValidateSwallow ==
    /\ pc = "validate" /\ status = "running"
    /\ trace' = Append(trace, "validate")
    /\ inp' = df
    /\ out' = validate_df(df)
    /\ df' = IF out'.ok THEN out'.df ELSE df
    /\ pc' = After(pc) /\ status' = status
    /\ UNCHANGED <<params, res, files, written, warnings, rng, bitgen, memo>>

\* df = validate_df(df)
Validate ==
    /\ pc = "validate" /\ status = "running"
    /\ trace' = Append(trace, "validate")
    /\ inp' = df
    /\ out' = validate_df(df)
    /\ IF out'.ok
       THEN df' = out'.df /\ pc' = After(pc) /\ status' = status
       ELSE Raise /\ df' = df
    /\ UNCHANGED <<params, res, files, written, warnings, rng, bitgen, memo>>

\* res = estimate(df, params.formula, params.cov_type)
Estimate ==
    /\ pc = "estimate" /\ status = "running"
    /\ trace' = Append(trace, "estimate")
    /\ \E lib \in {"ok", "fit_error", "cov_error"} :
         LET r == estimate(df, params.formula, params.cov_type, lib)
         IN  IF r.ok
             THEN res' = r.res /\ pc' = After(pc) /\ status' = status
             ELSE Raise /\ res' = res
    /\ UNCHANGED <<params, df, files, written, warnings, rng, bitgen, memo, inp, out>>

\* save_outputs: the four mkdir calls
Mkdir ==
    /\ pc = "mkdir" /\ status = "running"
    /\ trace' = Append(trace, "save_outputs")
    /\ \/ pc' = After(pc) /\ status' = status
       \/ Raise
    /\ UNCHANGED <<params, df, res, files, written, warnings, rng, bitgen, memo,
                   inp, out>>

\* df.to_csv(outdir / "data_processed.csv", index=False)
WriteData ==
    /\ pc = "write_data" /\ status = "running"
    /\ \/ /\ files' = files \cup {"data_processed.csv"}
          /\ written' = [written EXCEPT !.data_rows = Len(df.rows)]
          /\ pc' = After(pc) /\ status' = status
       \/ Raise /\ UNCHANGED <<files, written>>
    /\ UNCHANGED <<params, df, res, trace, warnings, rng, bitgen, memo, inp, out>>

\* tbl.to_csv(outdir / "tables" / "regression.csv")
WriteTableCsv ==
    /\ pc = "write_table_csv" /\ status = "running"
    /\ \/ /\ files' = files \cup {"tables/regression.csv"}
          /\ pc' = After(pc) /\ status' = status
       \/ Raise /\ files' = files
    /\ UNCHANGED <<params, df, res, written, trace, warnings, rng, bitgen, memo,
                   inp, out>>

\* (outdir / "tables" / "regression.tex").write_text(tbl.to_latex(...))
WriteTableTex ==
    /\ pc = "write_table_tex" /\ status = "running"
    /\ \/ /\ files' = files \cup {"tables/regression.tex"}
          /\ pc' = After(pc) /\ status' = status
       \/ Raise /\ files' = files
    /\ UNCHANGED <<params, df, res, written, trace, warnings, rng, bitgen, memo,
                   inp, out>>

\* idx = _get_param_idx("treat"); params[idx], bse[idx]; fig.savefig (twice)
WriteFigure ==
    /\ pc = "write_figure" /\ status = "running"
    /\ LET idx == get_param_idx(res.param_names, "treat")
       IN  \/ /\ idx < Len(res.param_names)
              /\ files' = files \cup {"figures/treat_effect.png"}
              /\ written' = [written EXCEPT
                               !.plot_idx = idx,
                               !.fallback = UsedFallback(res.param_names, "treat")]
              /\ pc' = After(pc) /\ status' = status
           \/ Raise /\ UNCHANGED <<files, written>>
    /\ UNCHANGED <<params, df, res, trace, warnings, rng, bitgen, memo, inp, out>>

WriteMetaRowCount ==
    /\ pc = "write_meta" /\ status = "running"
    /\ \/ /\ files' = files \cup {"logs/run_metadata.json"}
          /\ written' = [written EXCEPT !.n_obs = params.n_rows]
          /\ pc' = After(pc) /\ status' = status
       \/ Raise /\ UNCHANGED <<files, written>>
    /\ UNCHANGED <<params, df, res, trace, warnings, rng, bitgen, memo, inp, out>>

\* meta = {..., "n_obs": int(len(df))}; write_text(json.dumps(meta))
WriteMeta ==
    /\ pc = "write_meta" /\ status = "running"
    /\ \/ /\ files' = files \cup {"logs/run_metadata.json"}
          /\ written' = [written EXCEPT !.n_obs = Len(df.rows)]
          /\ pc' = After(pc) /\ status' = status
       \/ Raise /\ UNCHANGED <<files, written>>
    /\ UNCHANGED <<params, df, res, trace, warnings, rng, bitgen, memo, inp, out>>

Next ==
    \/ Load
    \/ Generate
    \/ Validate
    \/ Estimate
    \/ Mkdir
    \/ WriteData
    \/ WriteTableCsv
    \/ WriteTableTex
    \/ WriteFigure
    \/ WriteMeta

Spec == Init /\ [][Next]_vars

(***************************************************************************)
(* Properties of a pipeline run (Spec)                                     *)
(***************************************************************************)
StageOrder == <<"load", "generate", "validate", "estimate", "save_outputs">>

ArtifactOrder ==
    <<"data_processed.csv", "tables/regression.csv", "tables/regression.tex",
      "figures/treat_effect.png", "logs/run_metadata.json">>

IsPrefix(s, t) == Len(s) <= Len(t) /\ \A i \in 1..Len(s) : s[i] = t[i]

Entered(stage) == stage \in Range(trace)

\* C1: when run() has returned, data_processed.csv, tables/regression.csv,
\* figures/treat_effect.png and logs/run_metadata.json all exist, and the
\* n_obs of the metadata equals the number of rows of data_processed.csv.
C1_EndToEnd ==
    pc = "done" =>
        /\ {"data_processed.csv", "tables/regression.csv",
            "figures/treat_effect.png", "logs/run_metadata.json"} \subseteq files
        /\ written.n_obs = written.data_rows
        /\ written.data_rows >= 1

\* a completed run of "y ~ treat + x" whose dataset was aggregated
C1_Witness ==
    /\ pc = "done"
    /\ params.formula = <<"treat", "x">>
    /\ written.n_obs < params.n_rows

\* C2: the stages are entered in the order load, generate, validate,
\* estimate, save_outputs, each at most once; a failed run has entered no
\* stage after the failing one; and after a schema-validation failure
\* neither estimate nor save_outputs is ever entered.
C2_StageOrder ==
    /\ IsPrefix(trace, StageOrder)
    /\ status = "failed" =>
          /\ trace # <<>>
          /\ \/ trace[Len(trace)] = pc
             \/ trace[Len(trace)] = "save_outputs" /\ pc \notin Range(StageOrder)
    /\ (Entered("validate") /\ ~out.ok) =>
          /\ status = "failed" /\ pc = "validate"
          /\ ~Entered("estimate") /\ ~Entered("save_outputs")
          /\ res = NoRes /\ files = {}

\* a run that schema validation has aborted
C2_Witness ==
    /\ status = "failed" /\ pc = "validate"
    /\ out.errors # {}

\* C3: for n_rows >= 1 the dataset returned by generate_synthetic_panel has
\* no two rows with the same (firm_id, year).
C3_UniqueFirmYear ==
    (pc = "validate" /\ status = "running" /\ params.n_rows >= 1) =>
        \A i, j \in 1..Len(df.rows) :
            (df.rows[i].firm_id = df.rows[j].firm_id
             /\ df.rows[i].year = df.rows[j].year) => i = j

\* a returned dataset in which two drawn rows fell into one firm-year
C3_Witness ==
    /\ pc = "validate" /\ status = "running"
    /\ params.n_rows >= 2
    /\ Len(df.rows) >= 1
    /\ Len(df.rows) < params.n_rows

\* C4: for n_rows >= 1 validate_df accepts the generated dataset and returns
\* it unmodified: it is non-empty, has exactly the five schema columns, and
\* every row has firm_id >= 0, year in [2000, 2035], treat in {0, 1} and
\* finite x and y.
C4_GeneratedIsValid ==
    (Entered("validate") /\ params.n_rows >= 1) =>
        /\ out.ok
        /\ out.errors = {}
        /\ out.df = inp
        /\ inp.columns = <<"firm_id", "year", "x", "treat", "y">>
        /\ Len(inp.rows) >= 1
        /\ \A i \in 1..Len(inp.rows) :
              /\ inp.rows[i].firm_id >= 0
              /\ inp.rows[i].year >= 2000 /\ inp.rows[i].year <= 2035
              /\ inp.rows[i].treat \in {0, 1}
              /\ inp.rows[i].x.k = "fin"
              /\ inp.rows[i].y.k = "fin"

\* validation of a generated dataset with an aggregated, treated firm-year
C4_Witness ==
    /\ Entered("validate")
    /\ params.n_rows >= 2
    /\ out.ok
    /\ Len(inp.rows) < params.n_rows
    /\ \E i \in 1..Len(inp.rows) : inp.rows[i].treat = 1

\* C7: whenever the plot's coefficient was located by the positional
\* fallback, the program has emitted a warning.
C7_FallbackSignalled ==
    written.fallback => warnings # <<>>

\* C10: an artifact exists only if every artifact earlier in the order
\* data_processed.csv, tables/regression.csv, tables/regression.tex,
\* figures/treat_effect.png, logs/run_metadata.json exists, also in a failed
\* run; and no artifact exists before estimation has succeeded.
C10_WriteOrder ==
    /\ \A i \in 1..Len(ArtifactOrder) :
          ArtifactOrder[i] \in files =>
              \A j \in 1..i : ArtifactOrder[j] \in files
    /\ files # {} => (Entered("estimate") /\ res # NoRes /\ Entered("save_outputs"))
    /\ files \subseteq Range(ArtifactOrder)

\* a run aborted inside save_outputs that leaves the first three artifacts
C10_Witness ==
    /\ status = "failed"
    /\ files = {"data_processed.csv", "tables/regression.csv",
                "tables/regression.tex"}

(***************************************************************************)
(* SpecVal: validate_df applied to arbitrary datasets with the schema's    *)
(* columns and dtypes.                                                     *)
(***************************************************************************)
PipelineIdle ==
    /\ status = "running"
    /\ params = NoParams
    /\ df = NoDf
    /\ res = NoRes
    /\ files = {}
    /\ written = NothingWritten
    /\ trace = <<>>
    /\ warnings = <<>>
    /\ rng = [seed |-> 0, pos |-> 0]
    /\ memo = {}

ValRows ==
    [firm_id : {-1, 0}, year : {1999, 2010}, x : {Fin(0), Inf, NaN},
     treat : {0, 2}, y : {Fin(0), Inf}]

ValInputs ==
    UNION {[columns : {Columns}, dtypes : {Dtypes}, rows : [1..n -> ValRows]]
           : n \in 0..MaxValRows}

InitVal ==
    /\ PipelineIdle
    /\ pc = "call"
    /\ bitgen = <<>>
    /\ inp \in ValInputs
    /\ out = [ok |-> FALSE, df |-> NoDf, errors |-> {}]

ApplyValidate ==
    /\ pc = "call"
    /\ out' = validate_df(inp)
    /\ pc' = IF out'.ok THEN "returned" ELSE "raised"
    /\ UNCHANGED <<status, params, df, res, files, written, trace, warnings,
                   rng, bitgen, memo, inp>>

NextVal == ApplyValidate

SpecVal == InitVal /\ [][NextVal]_vars

HasDuplicateKey(d) ==
    \E i, j \in 1..Len(d.rows) :
        i < j /\ d.rows[i].firm_id = d.rows[j].firm_id
              /\ d.rows[i].year = d.rows[j].year

\* C5: validate_df raises on a duplicate (firm_id, year), on a non-finite x
\* or y, on a treat outside {0, 1} and on an empty dataset, and the raised
\* error lists every one of the constraints the dataset violates.
C5_RejectsAndAggregates ==
    pc # "call" =>
        /\ HasDuplicateKey(inp) =>
              (~out.ok /\ Err("duplicate", "") \in out.errors)
        /\ Len(inp.rows) = 0 =>
              (~out.ok /\ Err("empty", "") \in out.errors)
        /\ \A c \in {"x", "y"} :
              /\ (\E i \in 1..Len(inp.rows) : inp.rows[i][c].k = "inf") =>
                    (~out.ok /\ Err("finite", c) \in out.errors)
              /\ (\E i \in 1..Len(inp.rows) : inp.rows[i][c].k = "nan") =>
                    (~out.ok /\ Err("not_nullable", c) \in out.errors)
        /\ (\E i \in 1..Len(inp.rows) : inp.rows[i].treat \notin {0, 1}) =>
              (~out.ok /\ Err("isin", "treat") \in out.errors)
        /\ (\E i \in 1..Len(inp.rows) : inp.rows[i].firm_id < 0) =>
              (~out.ok /\ Err("ge", "firm_id") \in out.errors)
        /\ (\E i \in 1..Len(inp.rows) :
               inp.rows[i].year < 2000 \/ inp.rows[i].year > 2035) =>
              (~out.ok /\ Err("between", "year") \in out.errors)

\* a rejected dataset that has a duplicate key, an infinite y and a bad treat
C5_Witness ==
    /\ pc = "raised"
    /\ HasDuplicateKey(inp)
    /\ \E i \in 1..Len(inp.rows) : inp.rows[i].y.k = "inf"
    /\ \E i \in 1..Len(inp.rows) : inp.rows[i].treat = 2
    /\ Cardinality(out.errors) >= 3

(***************************************************************************)
(* SpecDet: repeated calls of generate_synthetic_panel in one process.     *)
(***************************************************************************)
DetSeeds == {0, 1}

InitDet ==
    /\ PipelineIdle
    /\ pc = "idle"
    /\ bitgen \in [DetSeeds -> [1..DetPeriod -> Bits]]
    /\ inp = NoDf
    /\ out = [ok |-> FALSE, df |-> NoDf, errors |-> {}]

CallGenerate ==
    /\ pc = "idle"
    /\ Len(trace) < MaxCalls
    /\ \E n \in 1..MaxRows, seed \in DetSeeds :
         LET g == default_rng(seed)
             d == generate_synthetic_panel(n, bitgen, g)
         IN  /\ rng' = [seed |-> g.seed, pos |-> (g.pos + 5 * n) % DetPeriod]
             /\ memo' = memo \cup {[n_rows |-> n, seed |-> seed, df |-> d]}
             /\ trace' = Append(trace, <<n, seed>>)
             /\ out' = [ok |-> TRUE, df |-> d, errors |-> {}]
    /\ UNCHANGED <<pc, status, params, df, res, files, written, warnings,
                   bitgen, inp>>

NextDet == CallGenerate

SpecDet == InitDet /\ [][NextDet]_vars

\* C6: two calls of generate_synthetic_panel with the same (n_rows, seed)
\* return the same dataset, whatever calls were made before them.
C6_Deterministic ==
    \A a, b \in memo :
        (a.n_rows = b.n_rows /\ a.seed = b.seed) => a.df = b.df

\* the same call made twice with a call for another seed in between
C6_Witness ==
    /\ Len(trace) = 3
    /\ trace[1] = trace[3]
    /\ trace[2][2] # trace[1][2]
    /\ trace[1][1] = 2

(***************************************************************************)
(* SpecEst: estimate applied to datasets with and without firm_id.         *)
(***************************************************************************)
EstColumns ==
    {Columns, <<"year", "x", "treat", "y">>, <<"firm_id", "year", "treat", "y">>}

EstInputs ==
    [columns : EstColumns,
     formula : {<<"treat", "x">>, <<"treat", "x", "firm_id">>, <<"treat">>},
     cov_type : {"nonrobust", "HC1", "cluster", "bogus"},
     lib : {"ok", "fit_error", "cov_error"}]

Frame(columns) == [columns |-> columns, dtypes |-> <<>>, rows |-> <<>>]

InitEst ==
    /\ PipelineIdle
    /\ pc = "call"
    /\ bitgen = <<>>
    /\ inp \in EstInputs
    /\ out = [ok |-> FALSE, res |-> NoRes]

ApplyEstimate ==
    /\ pc = "call"
    /\ out' = estimate(Frame(inp.columns), inp.formula, inp.cov_type, inp.lib)
    /\ pc' = IF out'.ok THEN "returned" ELSE "raised"
    /\ UNCHANGED <<status, params, df, res, files, written, trace, warnings,
                   rng, bitgen, memo, inp>>

NextEst == ApplyEstimate

SpecEst == InitEst /\ [][NextEst]_vars

\* the same columns with firm_id added or removed
ToggleFirmId(columns) ==
    IF "firm_id" \in Range(columns)
    THEN SelectSeq(columns, LAMBDA c : c # "firm_id")
    ELSE <<"firm_id">> \o columns

\* what estimate does on the same input with firm_id added or removed
Toggled == estimate(Frame(ToggleFirmId(inp.columns)), inp.formula,
                    inp.cov_type, inp.lib)

\* C8 (as claimed): "cluster" fails without a firm_id column, and for every
\* other cov_type the outcome of estimate does not depend on whether the
\* dataset has a firm_id column.
C8_OnlyClusterNeedsFirmId ==
    pc # "call" =>
        /\ (inp.cov_type = "cluster" /\ "firm_id" \notin Range(inp.columns))
              => ~out.ok
        /\ inp.cov_type # "cluster" => out = Toggled

\* C8 (amended): "cluster" fails without a firm_id column, and for every
\* other cov_type the outcome of estimate does not depend on whether the
\* dataset has a firm_id column, provided the formula does not name firm_id.
C8_OnlyClusterOrFormulaNeedsFirmId ==
    pc # "call" =>
        /\ (inp.cov_type = "cluster" /\ "firm_id" \notin Range(inp.columns))
              => ~out.ok
        /\ (inp.cov_type # "cluster" /\ "firm_id" \notin Range(inp.formula))
              => out = Toggled

\* "cluster" on a dataset that lacks only firm_id, where "HC1" would succeed
C8_Witness ==
    /\ pc = "raised"
    /\ inp.cov_type = "cluster"
    /\ inp.columns = <<"year", "x", "treat", "y">>
    /\ inp.formula = <<"treat", "x">>
    /\ inp.lib = "ok"
    /\ estimate(Frame(inp.columns), inp.formula, "HC1", inp.lib).ok

(***************************************************************************)
(* SpecCount: the number of rows generate_synthetic_panel returns.  A row  *)
(* is reduced to its (firm_id, year) cell and the cells drawn so far to    *)
(* their number: a draw lands in a cell drawn before, or in a new one      *)
(* while one of the n_firms * 11 cells is unused; the groupby returns one  *)
(* row per drawn cell.                                                     *)
(***************************************************************************)
CountRowCounts == {1, 12, 51, 550, 551, 2601}

InitCount ==
    /\ PipelineIdle
    /\ pc = "drawing"
    /\ bitgen = <<>>
    /\ inp \in [n_rows : CountRowCounts]
    /\ out = [drawn |-> 0, cells |-> 0, len |-> -1]

DrawRepeat ==
    /\ pc = "drawing"
    /\ out.drawn < inp.n_rows
    /\ out.cells >= 1
    /\ out' = [out EXCEPT !.drawn = @ + 1]
    /\ UNCHANGED <<pc, status, params, df, res, files, written, trace, warnings,
                   rng, bitgen, memo, inp>>

DrawFresh ==
    /\ pc = "drawing"
    /\ out.drawn < inp.n_rows
    /\ out.cells < n_firms(inp.n_rows) * Len(years)
    /\ out' = [out EXCEPT !.drawn = @ + 1, !.cells = @ + 1]
    /\ UNCHANGED <<pc, status, params, df, res, files, written, trace, warnings,
                   rng, bitgen, memo, inp>>

ReturnGrouped ==
    /\ pc = "drawing"
    /\ out.drawn = inp.n_rows
    /\ out' = [out EXCEPT !.len = out.cells]
    /\ pc' = "returned"
    /\ UNCHANGED <<status, params, df, res, files, written, trace, warnings,
                   rng, bitgen, memo, inp>>

NextCount ==
    \/ DrawRepeat
    \/ DrawFresh
    \/ ReturnGrouped

SpecCount == InitCount /\ [][NextCount]_vars

\* C9 (as claimed): at most n_rows rows are returned, and whenever n_rows
\* exceeds both the number of firms and the 11 years, fewer than n_rows.
C9_StrictWhenFirmsAndYearsRepeat ==
    pc = "returned" =>
        /\ out.len <= inp.n_rows
        /\ (inp.n_rows > Max(50, ISqrt(inp.n_rows)) /\ inp.n_rows > 11)
              => out.len < inp.n_rows

\* C9 (amended): at most n_rows rows are returned, and whenever n_rows
\* exceeds the number of firm-year cells, 11 * max(50, floor(sqrt(n_rows))),
\* fewer than n_rows.
C9_StrictWhenCellsExhausted ==
    pc = "returned" =>
        /\ out.len <= inp.n_rows
        /\ out.len >= 1
        /\ inp.n_rows > 11 * Max(50, ISqrt(inp.n_rows))
              => out.len < inp.n_rows

\* more rows drawn than there are cells, every cell hit
C9_Witness ==
    /\ pc = "returned"
    /\ inp.n_rows > 11 * Max(50, ISqrt(inp.n_rows))
    /\ out.len = 11 * Max(50, ISqrt(inp.n_rows))

====
